---- MODULE Spec2Model ----
(***************************************************************************)
(* The synchronisation logic of CanvasPage (src/src/pages/CanvasPage.jsx)  *)
(* with the surface hook useFabric (src/src/hooks/useFabric.js), as a      *)
(* state machine.  One step of the model is one task of the browser's      *)
(* event loop: a user event handler, a timer callback, the continuation of *)
(* an awaited Firestore call or a snapshot callback, together with the     *)
(* promise reactions (microtasks) it triggers.  The document store is one  *)
(* Firestore document scenes/<id> shared by the sessions.                  *)
(*                                                                         *)
(* Editing surface: fabric 6 (README "Fabric.js 6.7.1", named imports).    *)
(* canvas.loadFromJSON(json, f) takes f as a reviver: f is called once for *)
(* every object of json while it is revived, then the canvas is cleared    *)
(* and the revived objects are added (object:removed / object:added fire). *)
(* For the shapes this program creates all of that is promise reactions of *)
(* the calling task, so a load is part of the step that starts it.         *)
(***************************************************************************)
EXTENDS Integers, Sequences, FiniteSets, TLC

\* ------------------------------------------------------------------ bounds
\* The two browser sessions of spec section 8 (Scenario C).
Sessions == {"X", "Y"}

\* Number of state-changing user actions over all sessions.
MaxEdits == 2

\* Largest number of objects on a surface.
MaxObjects == 2

\* Number of writes (and deletions) by clients other than the sessions
\* modelled in detail.
MaxRemote == 1

\* Number of Firestore calls that fail.
MaxFaults == 1

\* An object is its descriptor (its shape with its properties): "new" as
\* addShape or the pen creates it, "edited" once the user has changed it.
ObjVals == {"new", "edited"}

Edited(obj) == IF obj = "new" THEN "edited" ELSE "new"

\* ------------------------------------------------------------------ blobs
\* A scene is the sequence of objects of a canvas.  A blob is a JSON string;
\* fmt tells the two ways this program produces one apart, because they are
\* different strings for the same (empty) scene.

\* useRef(null): no blob.
NoBlob == [fmt |-> "null", objects |-> <<>>]

\* JSON.stringify({ objects: [], background: "#ffffff" })
InitialBlob == [fmt |-> "literal", objects |-> <<>>]

\* JSON.stringify(canvas.toJSON()): fabric's toJSON adds its version key.
ToJSON(objs) == [fmt |-> "fabric", objects |-> objs]

\* A string that is not the JSON of a scene (written by another program).
Malformed == [fmt |-> "malformed", objects |-> <<>>]

\* loadFromJSON can parse the blob; if not it throws before it touches the
\* canvas and before it calls the function passed as its 2nd argument.
Parses(blob) == blob.fmt # "malformed"

\* The objects loadFromJSON revives from a blob.
LoadFromJSON(blob) == blob.objects

\* loadFromJSON calls the function passed as its 2nd argument once per
\* object of the blob, in one task: 1 when the callbacks' timeouts of a load
\* are scheduled (they fire back to back), 0 when the function is not called.
ReviverCalls(blob) == IF Len(blob.objects) > 0 THEN 1 ELSE 0

\* The document of a canvas id that was never written.
AbsentDoc == [exists |-> FALSE, data |-> NoBlob, createdAt |-> 0, updatedAt |-> 0, viewOnly |-> "unset"]

\* No call of debouncedSave is waiting for the timer.
NoBurst == [n |-> 0, json |-> NoBlob]

\* The history record before any step.
NoEvent == [op |-> "none", s |-> "X", wrote |-> FALSE, sched |-> FALSE, reload |-> FALSE, blob |-> NoBlob, preApplying |-> FALSE, preLoading |-> FALSE, n |-> 0, accepted |-> NoBlob, preExists |-> FALSE, same |-> FALSE, preCreatedAt |-> 0, preViewOnly |-> "unset", preAdding |-> FALSE]

VARIABLES
    store,              \* the Firestore document scenes/<id>
    clock,              \* serverTimestamp(): the server's clock
    pc,                 \* per session: position of the load effect
    viewOnly,           \* per session: the viewOnly URL flag
    fc,                 \* per session: fabricRef.current is a canvas
    listeners,          \* per session: the mutation listeners are on that canvas
    scene,              \* per session: the objects of the canvas
    lastLocalJson,      \* per session: lastLocalJson.current
    isAddingObject,     \* per session: isAddingObject.current
    isApplyingRemote,   \* per session: isApplyingRemote.current
    pendingRemoteJson,  \* per session: pendingRemoteJson.current
    snap,               \* per session: the result of getDoc, once read
    wq,                 \* per session: the setDoc calls not yet resolved, oldest first
    inbox,              \* per session: snapshots not yet delivered to onSnapshot's callback
    timer,              \* per session: the debounce timer of debouncedSave is pending
    clearTimers,        \* per session: loads whose setTimeout(() => isApplyingRemote = false, 0) are pending
    poll,               \* per session: the setInterval(tryApply, 50) is active
    edits,              \* user actions so far
    remoteWrites,       \* writes and deletions by other clients so far
    status,             \* per session: the status line (useState)
    closed,             \* per session: the component has unmounted (its effects' cleanups have run)
    faults,             \* failed Firestore calls so far
    ev,                 \* history: what the last step did
    persisted,          \* history: per session, the blobs doSave has written
    issued,             \* history: per session, the kinds of write issued ("create", "add", "debounce"; "addOverlap": an add while another was unresolved)
    burst,              \* history: per session, the calls of debouncedSave the timer stands for, and the canvas's JSON after the last one
    buffered,           \* history: per session, blobs put in pendingRemoteJson so far
    drained             \* history: per session, blobs tryApply has loaded so far

refs == <<lastLocalJson, isAddingObject, isApplyingRemote, pendingRemoteJson>>

server == <<store, clock, remoteWrites>>

hist == <<persisted, issued, burst, buffered, drained>>

vars == <<store, clock, remoteWrites, pc, viewOnly, fc, listeners, scene, lastLocalJson, isAddingObject, isApplyingRemote, pendingRemoteJson, snap, wq, inbox, timer, clearTimers, poll, status, closed, faults, edits, ev, persisted, issued, burst, buffered, drained>>

Init ==
    /\ store = AbsentDoc
    /\ clock = 0
    /\ pc = [s \in Sessions |-> "unmounted"]
    /\ viewOnly = [s \in Sessions |-> FALSE]
    /\ fc = [s \in Sessions |-> FALSE]
    /\ listeners = [s \in Sessions |-> FALSE]
    /\ scene = [s \in Sessions |-> <<>>]
    /\ lastLocalJson = [s \in Sessions |-> NoBlob]
    /\ isAddingObject = [s \in Sessions |-> FALSE]
    /\ isApplyingRemote = [s \in Sessions |-> FALSE]
    /\ pendingRemoteJson = [s \in Sessions |-> NoBlob]
    /\ snap = [s \in Sessions |-> AbsentDoc]
    /\ wq = [s \in Sessions |-> <<>>]
    /\ inbox = [s \in Sessions |-> <<>>]
    /\ timer = [s \in Sessions |-> FALSE]
    /\ clearTimers = [s \in Sessions |-> 0]
    /\ poll = [s \in Sessions |-> FALSE]
    /\ status = [s \in Sessions |-> "Loading..."]
    /\ closed = [s \in Sessions |-> FALSE]
    /\ faults = 0
    /\ edits = 0
    /\ remoteWrites = 0
    /\ ev = NoEvent
    /\ persisted = [s \in Sessions |-> {}]
    /\ issued = [s \in Sessions |-> {}]
    /\ burst = [s \in Sessions |-> NoBurst]
    /\ buffered = [s \in Sessions |-> <<>>]
    /\ drained = [s \in Sessions |-> <<>>]

\* ------------------------------------------------------------------ helpers
\* What the last step did: op by session s; wrote: it called setDoc; sched: it
\* (re)started the debounce timer; reload: it called loadFromJSON; blob: the
\* blob written, loaded or received.  The pre-fields are read before the step
\* (preExists, preCreatedAt, preViewOnly: the stored document; same: blob was
\* the canvas's JSON).
Event(op, s, wrote, sched, reload, blob) == [op |-> op, s |-> s, wrote |-> wrote, sched |-> sched, reload |-> reload, blob |-> blob, preApplying |-> isApplyingRemote[s], preLoading |-> isApplyingRemote[s] /\ clearTimers[s] > 0, n |-> burst[s].n, accepted |-> burst[s].json, preExists |-> store.exists, same |-> blob = ToJSON(scene[s]), preCreatedAt |-> store.createdAt, preViewOnly |-> store.viewOnly, preAdding |-> isAddingObject[s]]

\* Variant of the guard without its viewOnly test.
OnChangeAccepts_NoViewOnly(vo, adding, applying) == ~adding /\ ~applying

\* Variant of the guard without its isAddingObject test.
OnChangeAccepts_NoAdding(vo, adding, applying) == ~vo /\ ~applying

\* Variant of the guard without its isApplyingRemote test.
OnChangeAccepts_NoApplying(vo, adding, applying) == ~vo /\ ~adding

\* The guard of onChange and of onObjectRemoved.
OnChangeAccepts(vo, adding, applying) == ~vo /\ ~adding /\ ~applying

\* Variant: a guard that also looks at the stored viewOnly field.
EventSchedules_StoredFlag(s, adding, applying) == listeners[s] /\ OnChangeAccepts(viewOnly[s] \/ store.viewOnly = "true", adding, applying)

\* A mutation event fired on session s's canvas reaches debouncedSave.
EventSchedules(s, adding, applying) == listeners[s] /\ OnChangeAccepts(viewOnly[s], adding, applying)

\* Variant: doSave without line 289.
ArmedJson_NotSet(s, json) == lastLocalJson[s]

\* doSave: lastLocalJson.current = json, before setDoc is called.
ArmedJson(s, json) == json

\* Variant: doSave without line 284.
DoSaveProceeds_Always(applying) == TRUE

\* doSave goes on to write (the canvas it is given is never null here).
DoSaveProceeds(applying) == ~applying

\* Variant: addShape without line 412, the flag stays as it was.
AddShapeAdding_Kept(s) == isAddingObject[s]

\* The value addShape gives isAddingObject.current before it adds the object.
AddShapeAdding(s) == TRUE

\* Variant: addShape without line 413, the flag stays as it was.
AddShapeApplying_Kept(s) == isApplyingRemote[s]

\* The value addShape gives isApplyingRemote.current before it adds the object.
AddShapeApplying(s) == FALSE

\* History of debouncedSave: one more call, made with the canvas holding objs.
Called(b, accept, objs) == IF accept THEN [n |-> b.n + 1, json |-> ToJSON(objs)] ELSE b

\* Variant: the handlers return only without a canvas.
Refuses_NoViewOnly(s) == ~fc[s]

\* addShape, changeSelectedObjectColor and onKey return at once without a
\* canvas and in a view-only session.
Refuses(s) == ~fc[s] \/ viewOnly[s]

\* Variant: tryApply without line 250, the blob stays pending.
PendingAfterApply_Kept(s) == pendingRemoteJson[s]

\* tryApply: pendingRemoteJson.current after it has taken the blob.
PendingAfterApply(s) == NoBlob

\* The component of session s is mounted.
Open(s) == pc[s] # "unmounted" /\ ~closed[s]

\* The component of session s is mounted and shows the canvas id of the
\* document modelled (the user's actions on another canvas id are not
\* modelled).
Shown(s) == Open(s) /\ pc[s] # "switched"

\* Variant: the callbacks without their test of the data field.
HasData_Always(remote) == TRUE

\* data?.data / remote?.data: the document has a data field that is not empty
\* (a snapshot of an absent document carries none).
HasData(remote) == remote # NoBlob

\* Variant: no finally handler, the flag stays as it was.
FinallyAdding_Kept(s) == isAddingObject[s]

\* addShape's finally handler: isAddingObject.current = false.
FinallyAdding(s) == FALSE

\* The queue without its i-th call.
RemoveAt(q, i) == SubSeq(q, 1, i - 1) \o SubSeq(q, i + 1, Len(q))

\* The snapshot callback's echo check.
IsEcho(s, remote) == lastLocalJson[s] # NoBlob /\ remote = lastLocalJson[s]

\* Variant: the callback without its comparison with the canvas.
Differs_Always(s, remote) == TRUE

\* The snapshot callback's "only update if data is actually different".
Differs(s, remote) == ToJSON(scene[s]) # remote

\* Variant: a timer that stays pending after it has fired.
TimerAfterFire_StillPending(s) == TRUE

\* debounce(doSave, 300): the timer is no longer pending once it has fired.
TimerAfterFire(s) == FALSE

Unlanded(q) == {i \in 1 .. Len(q) : ~q[i].landed}

FirstUnlanded(q) == CHOOSE i \in Unlanded(q) : \A j \in Unlanded(q) : i <= j

\* Variant: a merging setDoc that keeps the objects already stored.
SetDoc_MergeObjects(doc, w, now) == IF w.kind = "create" THEN [exists |-> TRUE, data |-> w.data, createdAt |-> now, updatedAt |-> now, viewOnly |-> IF w.viewOnly THEN "true" ELSE "false"] ELSE [doc EXCEPT !.exists = TRUE, !.data = [fmt |-> w.data.fmt, objects |-> IF Len(w.data.objects) = 0 THEN doc.data.objects ELSE w.data.objects], !.updatedAt = now]

\* Variant: no setDoc merges.
SetDoc_NeverMerge(doc, w, now) == [exists |-> TRUE, data |-> w.data, createdAt |-> IF w.kind = "create" THEN now ELSE 0, updatedAt |-> now, viewOnly |-> IF w.kind # "create" THEN "unset" ELSE IF w.viewOnly THEN "true" ELSE "false"]

\* Variant: every setDoc merges.
SetDoc_AlwaysMerge(doc, w, now) == [doc EXCEPT !.exists = TRUE, !.data = w.data, !.updatedAt = now]

\* History of addShape's write: "add", and "addOverlap" too when the setDoc
\* of an earlier addShape has not resolved yet.
AddKinds(q) == IF \E i \in 1 .. Len(q) : q[i].kind = "add" THEN {"add", "addOverlap"} ELSE {"add"}

\* setDoc(sceneRef, {...}) replaces the document; with { merge: true } it
\* replaces the fields it names.
SetDoc(doc, w, now) == IF w.kind = "create" THEN [exists |-> TRUE, data |-> w.data, createdAt |-> now, updatedAt |-> now, viewOnly |-> IF w.viewOnly THEN "true" ELSE "false"] ELSE [doc EXCEPT !.exists = TRUE, !.data = w.data, !.updatedAt = now]

\* ------------------------------------------------------------------ actions
\* The component mounts: useFabric's effect makes the canvas if the <canvas>
\* element is there, the load effect calls getDoc, the tryApply effect finds
\* nothing pending and starts its interval, the listeners effect attaches the
\* listeners if there is a canvas.
Mount(s, vo, canvas) ==
    /\ pc[s] = "unmounted"
    /\ s # "X" => pc["X"] # "unmounted"
    /\ pc' = [pc EXCEPT ![s] = "fetching"]
    /\ viewOnly' = [viewOnly EXCEPT ![s] = vo]
    /\ fc' = [fc EXCEPT ![s] = canvas]
    /\ listeners' = [listeners EXCEPT ![s] = canvas]
    /\ poll' = [poll EXCEPT ![s] = TRUE]
    /\ ev' = Event("mount", s, FALSE, FALSE, FALSE, NoBlob)
    /\ UNCHANGED <<server, scene, refs, snap, wq, inbox, timer, clearTimers, edits, hist>>
    /\ UNCHANGED status
    /\ UNCHANGED <<closed, faults>>

\* useFabric's effect runs again (its options changed) with the <canvas>
\* element there, for a session that had no canvas: a new, empty canvas.
\* The listeners effect does not run again.
UseFabricEffect(s) ==
    /\ Open(s)
    /\ ~fc[s]
    /\ fc' = [fc EXCEPT ![s] = TRUE]
    /\ scene' = [scene EXCEPT ![s] = <<>>]
    /\ ev' = Event("useFabric", s, FALSE, FALSE, FALSE, NoBlob)
    /\ UNCHANGED <<server, pc, viewOnly, listeners, refs, snap, wq, inbox, timer, clearTimers, poll, edits, hist>>
    /\ UNCHANGED status
    /\ UNCHANGED <<closed, faults>>

\* The server answers getDoc with the document as it is now.
GetDocRead(s) ==
    /\ pc[s] = "fetching"
    /\ snap' = [snap EXCEPT ![s] = store]
    /\ pc' = [pc EXCEPT ![s] = "fetched"]
    /\ ev' = Event("getDocRead", s, FALSE, FALSE, FALSE, store.data)
    /\ UNCHANGED <<server, viewOnly, fc, listeners, scene, refs, wq, inbox, timer, clearTimers, poll, edits, hist>>
    /\ UNCHANGED status
    /\ UNCHANGED <<closed, faults>>

\* The continuation of await getDoc: load or buffer the document and
\* subscribe, or issue the creating setDoc.  A blob loadFromJSON cannot parse
\* makes it throw into the catch clause, before onSnapshot is reached.
GetDocResume(s) ==
    /\ pc[s] = "fetched"
    /\ IF snap[s].exists
       THEN LET data == snap[s].data
                load == HasData(data) /\ fc[s]
                buf == HasData(data) /\ ~fc[s]
                thrown == load /\ ~Parses(data)
                fired == load /\ ~thrown /\ Len(scene[s]) + Len(LoadFromJSON(data)) > 0
                accept == fired /\ EventSchedules(s, isAddingObject[s], isApplyingRemote[s])
            IN  /\ scene' = [scene EXCEPT ![s] = IF load /\ ~thrown THEN LoadFromJSON(data) ELSE @]
                /\ pendingRemoteJson' = [pendingRemoteJson EXCEPT ![s] = IF buf THEN data ELSE @]
                /\ buffered' = [buffered EXCEPT ![s] = IF buf THEN Append(@, data) ELSE @]
                /\ timer' = [timer EXCEPT ![s] = @ \/ accept]
                /\ burst' = [burst EXCEPT ![s] = Called(@, accept, scene'[s])]
                /\ pc' = [pc EXCEPT ![s] = IF thrown THEN "loadFailed" ELSE "subscribed"]
                /\ inbox' = [inbox EXCEPT ![s] = IF thrown THEN @ ELSE Append(@, store.data)]
                /\ ev' = Event("getDocLoad", s, FALSE, accept, load, data)
                /\ UNCHANGED <<wq, issued>>
       ELSE /\ wq' = [wq EXCEPT ![s] = Append(@, [kind |-> "create", data |-> InitialBlob, viewOnly |-> viewOnly[s], landed |-> FALSE])]
            /\ issued' = [issued EXCEPT ![s] = @ \cup {"create"}]
            /\ pc' = [pc EXCEPT ![s] = "creating"]
            /\ ev' = Event("getDocCreate", s, TRUE, FALSE, FALSE, InitialBlob)
            /\ UNCHANGED <<scene, pendingRemoteJson, buffered, timer, burst, inbox>>
    /\ UNCHANGED <<server, viewOnly, fc, listeners, lastLocalJson, isAddingObject, isApplyingRemote, snap, clearTimers, poll, edits, persisted, drained>>
    /\ status' = [status EXCEPT ![s] = IF ~snap[s].exists THEN @ ELSE IF pc'[s] = "loadFailed" THEN "Error loading scene" ELSE "Ready"]
    /\ UNCHANGED <<closed, faults>>

\* The oldest setDoc of session s not yet at the server reaches it; every
\* subscribed session is sent the new document.
WriteLand(s) ==
    /\ Unlanded(wq[s]) # {}
    /\ LET i == FirstUnlanded(wq[s])
           w == wq[s][i]
       IN  /\ store' = SetDoc(store, w, clock + 1)
           /\ clock' = clock + 1
           /\ wq' = [wq EXCEPT ![s][i].landed = TRUE]
           /\ inbox' = [t \in Sessions |-> IF pc[t] = "subscribed" THEN Append(inbox[t], w.data) ELSE inbox[t]]
           /\ ev' = Event("writeLand", s, FALSE, FALSE, FALSE, w.data)
    /\ UNCHANGED <<remoteWrites, pc, viewOnly, fc, listeners, scene, refs, snap, timer, clearTimers, poll, edits, hist>>
    /\ UNCHANGED status
    /\ UNCHANGED <<closed, faults>>

\* The promise of the oldest setDoc of session s resolves: after the creating
\* setDoc the load effect subscribes; after addShape's doSave the finally
\* handler clears isAddingObject.
WriteAck(s) ==
    /\ wq[s] # <<>>
    /\ Head(wq[s]).landed
    /\ LET w == Head(wq[s])
       IN  /\ wq' = [wq EXCEPT ![s] = Tail(@)]
           /\ pc' = [pc EXCEPT ![s] = IF w.kind = "create" THEN "subscribed" ELSE @]
           /\ inbox' = [inbox EXCEPT ![s] = IF w.kind = "create" THEN Append(@, store.data) ELSE @]
           /\ isAddingObject' = [isAddingObject EXCEPT ![s] = IF w.kind = "add" THEN FinallyAdding(s) ELSE @]
           /\ ev' = Event("writeAck", s, FALSE, FALSE, FALSE, w.data)
    /\ UNCHANGED <<server, viewOnly, fc, listeners, scene, lastLocalJson, isApplyingRemote, pendingRemoteJson, snap, timer, clearTimers, poll, edits, hist>>
    /\ status' = [status EXCEPT ![s] = IF Head(wq[s]).kind = "create" THEN "Ready" ELSE "Saved"]
    /\ UNCHANGED <<closed, faults>>

\* onSnapshot's callback gets the next snapshot.  It sets isApplyingRemote
\* before it calls loadFromJSON; when that throws, the exception leaves the
\* callback and nothing else happens.
OnSnapshot(s) ==
    /\ pc[s] = "subscribed"
    /\ inbox[s] # <<>>
    /\ LET remote == Head(inbox[s])
           buf == HasData(remote) /\ ~fc[s]
           apply == HasData(remote) /\ fc[s] /\ ~IsEcho(s, remote) /\ Differs(s, remote)
           loads == apply /\ Parses(remote)
           fired == loads /\ Len(scene[s]) + Len(LoadFromJSON(remote)) > 0
           accept == fired /\ EventSchedules(s, isAddingObject[s], TRUE)
       IN  /\ inbox' = [inbox EXCEPT ![s] = Tail(@)]
           /\ pendingRemoteJson' = [pendingRemoteJson EXCEPT ![s] = IF buf THEN remote ELSE @]
           /\ buffered' = [buffered EXCEPT ![s] = IF buf THEN Append(@, remote) ELSE @]
           /\ isApplyingRemote' = [isApplyingRemote EXCEPT ![s] = IF apply THEN TRUE ELSE @]
           /\ scene' = [scene EXCEPT ![s] = IF loads THEN LoadFromJSON(remote) ELSE @]
           /\ clearTimers' = [clearTimers EXCEPT ![s] = IF loads THEN @ + ReviverCalls(remote) ELSE @]
           /\ timer' = [timer EXCEPT ![s] = @ \/ accept]
           /\ burst' = [burst EXCEPT ![s] = Called(@, accept, scene'[s])]
           /\ ev' = Event("onSnapshot", s, FALSE, accept, apply, remote)
    /\ UNCHANGED <<server, pc, viewOnly, fc, listeners, lastLocalJson, isAddingObject, snap, wq, poll, edits, persisted, issued, drained>>
    /\ status' = [status EXCEPT ![s] = IF ev'.reload /\ ReviverCalls(Head(inbox[s])) > 0 THEN "Updated from remote" ELSE @]
    /\ UNCHANGED <<closed, faults>>

\* A tick of setInterval(tryApply, 50) that finds a canvas and a pending
\* blob (a tick that finds none changes nothing).  fc.clear() comes before
\* loadFromJSON; when that throws, clearInterval is not reached.
TryApply(s) ==
    /\ poll[s]
    /\ fc[s]
    /\ pendingRemoteJson[s] # NoBlob
    /\ LET json == pendingRemoteJson[s]
           fired == Len(scene[s]) + Len(LoadFromJSON(json)) > 0
           accept == fired /\ EventSchedules(s, isAddingObject[s], TRUE)
       IN  /\ isApplyingRemote' = [isApplyingRemote EXCEPT ![s] = TRUE]
           /\ pendingRemoteJson' = [pendingRemoteJson EXCEPT ![s] = PendingAfterApply(s)]
           /\ scene' = [scene EXCEPT ![s] = LoadFromJSON(json)]
           /\ clearTimers' = [clearTimers EXCEPT ![s] = @ + ReviverCalls(json)]
           /\ drained' = [drained EXCEPT ![s] = Append(@, json)]
           /\ timer' = [timer EXCEPT ![s] = @ \/ accept]
           /\ burst' = [burst EXCEPT ![s] = Called(@, accept, scene'[s])]
           /\ poll' = [poll EXCEPT ![s] = IF Parses(json) THEN FALSE ELSE @]
           /\ ev' = Event("tryApply", s, FALSE, accept, TRUE, json)
    /\ UNCHANGED <<server, pc, viewOnly, fc, listeners, lastLocalJson, isAddingObject, snap, wq, inbox, edits, persisted, issued, buffered>>
    /\ status' = [status EXCEPT ![s] = IF ReviverCalls(pendingRemoteJson[s]) > 0 THEN "Updated from remote" ELSE @]
    /\ UNCHANGED <<closed, faults>>

\* A setTimeout(() => { isApplyingRemote.current = false; }, 0) fires.
ClearApplying(s) ==
    /\ clearTimers[s] > 0
    /\ clearTimers' = [clearTimers EXCEPT ![s] = @ - 1]
    /\ isApplyingRemote' = [isApplyingRemote EXCEPT ![s] = FALSE]
    /\ ev' = Event("clearApplying", s, FALSE, FALSE, FALSE, NoBlob)
    /\ UNCHANGED <<server, pc, viewOnly, fc, listeners, scene, lastLocalJson, isAddingObject, pendingRemoteJson, snap, wq, inbox, timer, poll, edits, hist>>
    /\ UNCHANGED status
    /\ UNCHANGED <<closed, faults>>

\* The debounce timer fires: doSave(fc).
DebounceFire(s) ==
    /\ timer[s]
    /\ LET go == DoSaveProceeds(isApplyingRemote[s])
           json == ToJSON(scene[s])
       IN  /\ timer' = [timer EXCEPT ![s] = TimerAfterFire(s)]
           /\ burst' = [burst EXCEPT ![s] = IF TimerAfterFire(s) THEN @ ELSE NoBurst]
           /\ lastLocalJson' = [lastLocalJson EXCEPT ![s] = IF go THEN ArmedJson(s, json) ELSE @]
           /\ wq' = [wq EXCEPT ![s] = IF go THEN Append(@, [kind |-> "debounce", data |-> json, viewOnly |-> viewOnly[s], landed |-> FALSE]) ELSE @]
           /\ persisted' = [persisted EXCEPT ![s] = IF go THEN @ \cup {json} ELSE @]
           /\ issued' = [issued EXCEPT ![s] = IF go THEN @ \cup {"debounce"} ELSE @]
           /\ ev' = Event("debounceFire", s, go, FALSE, FALSE, IF go THEN json ELSE NoBlob)
    /\ UNCHANGED <<server, pc, viewOnly, fc, listeners, scene, isAddingObject, isApplyingRemote, pendingRemoteJson, snap, inbox, clearTimers, poll, edits, buffered, drained>>
    /\ status' = [status EXCEPT ![s] = IF ev'.wrote THEN "Saving..." ELSE @]
    /\ UNCHANGED <<closed, faults>>

\* The user moves, resizes or edits object i: object:modified -> onChange.
\* (Nothing stops this in a view-only session: the listeners effect makes
\* unselectable only the objects on the canvas when it runs.)
UserModify(s, i) ==
    /\ Shown(s)
    /\ fc[s]
    /\ edits < MaxEdits
    /\ i \in 1 .. Len(scene[s])
    /\ LET accept == EventSchedules(s, isAddingObject[s], isApplyingRemote[s])
       IN  /\ scene' = [scene EXCEPT ![s][i] = Edited(@)]
           /\ timer' = [timer EXCEPT ![s] = @ \/ accept]
           /\ burst' = [burst EXCEPT ![s] = Called(@, accept, scene'[s])]
           /\ ev' = Event("modify", s, FALSE, accept, FALSE, NoBlob)
    /\ edits' = edits + 1
    /\ UNCHANGED <<server, pc, viewOnly, fc, listeners, refs, snap, wq, inbox, clearTimers, poll, persisted, issued, buffered, drained>>
    /\ UNCHANGED status
    /\ UNCHANGED <<closed, faults>>

\* The user finishes a pen stroke: the path is added (object:added ->
\* onChange) and path:created -> onChange.  togglePen refuses without a
\* canvas and in a view-only session, so there is no stroke there.
PenStroke(s) ==
    /\ Shown(s)
    /\ fc[s]
    /\ ~viewOnly[s]
    /\ edits < MaxEdits
    /\ Len(scene[s]) < MaxObjects
    /\ LET accept == EventSchedules(s, isAddingObject[s], isApplyingRemote[s])
       IN  /\ scene' = [scene EXCEPT ![s] = Append(@, "new")]
           /\ timer' = [timer EXCEPT ![s] = @ \/ accept]
           /\ burst' = [burst EXCEPT ![s] = Called(@, accept, scene'[s])]
           /\ ev' = Event("stroke", s, FALSE, accept, FALSE, NoBlob)
    /\ edits' = edits + 1
    /\ UNCHANGED <<server, pc, viewOnly, fc, listeners, refs, snap, wq, inbox, clearTimers, poll, persisted, issued, buffered, drained>>
    /\ UNCHANGED status
    /\ UNCHANGED <<closed, faults>>

\* Delete or Backspace with object i selected: onKey returns without a
\* canvas and in a view-only session; else fc.remove -> object:removed ->
\* onObjectRemoved.
KeyDelete(s, i) ==
    /\ Shown(s)
    /\ IF Refuses(s)
       THEN /\ ev' = Event("delete", s, FALSE, FALSE, FALSE, NoBlob)
            /\ UNCHANGED <<scene, timer, burst, edits>>
       ELSE /\ edits < MaxEdits
            /\ i \in 1 .. Len(scene[s])
            /\ LET accept == EventSchedules(s, isAddingObject[s], isApplyingRemote[s])
               IN  /\ scene' = [scene EXCEPT ![s] = SubSeq(@, 1, i - 1) \o SubSeq(@, i + 1, Len(@))]
                   /\ timer' = [timer EXCEPT ![s] = @ \/ accept]
                   /\ burst' = [burst EXCEPT ![s] = Called(@, accept, scene'[s])]
                   /\ ev' = Event("delete", s, FALSE, accept, FALSE, NoBlob)
            /\ edits' = edits + 1
    /\ UNCHANGED <<server, pc, viewOnly, fc, listeners, refs, snap, wq, inbox, clearTimers, poll, persisted, issued, buffered, drained>>
    /\ UNCHANGED status
    /\ UNCHANGED <<closed, faults>>

\* changeSelectedObjectColor with object i selected: it returns without a
\* canvas and in a view-only session; else it sets the fill and calls
\* debouncedSave itself.
ChangeSelectedObjectColor(s, i) ==
    /\ Shown(s)
    /\ IF Refuses(s)
       THEN /\ ev' = Event("color", s, FALSE, FALSE, FALSE, NoBlob)
            /\ UNCHANGED <<scene, timer, burst, edits>>
       ELSE /\ edits < MaxEdits
            /\ i \in 1 .. Len(scene[s])
            /\ scene' = [scene EXCEPT ![s][i] = Edited(@)]
            /\ timer' = [timer EXCEPT ![s] = TRUE]
            /\ burst' = [burst EXCEPT ![s] = Called(@, TRUE, scene'[s])]
            /\ ev' = Event("color", s, FALSE, TRUE, FALSE, NoBlob)
            /\ edits' = edits + 1
    /\ UNCHANGED <<server, pc, viewOnly, fc, listeners, refs, snap, wq, inbox, clearTimers, poll, persisted, issued, buffered, drained>>
    /\ UNCHANGED status
    /\ UNCHANGED <<closed, faults>>

\* addShape(type): it returns without a canvas and in a view-only session;
\* else it sets the flags, adds the object (object:added -> onChange) and
\* calls doSave(fc) at once.  When doSave returns without writing, its
\* promise is resolved and finally clears isAddingObject within this step.
AddShape(s) ==
    /\ Shown(s)
    /\ IF Refuses(s)
       THEN /\ ev' = Event("addShape", s, FALSE, FALSE, FALSE, NoBlob)
            /\ UNCHANGED <<scene, timer, burst, edits, refs, wq, persisted, issued>>
       ELSE /\ edits < MaxEdits
            /\ Len(scene[s]) < MaxObjects
            /\ LET applying == AddShapeApplying(s)
                   accept == EventSchedules(s, AddShapeAdding(s), applying)
                   go == DoSaveProceeds(applying)
                   json == ToJSON(Append(scene[s], "new"))
               IN  /\ scene' = [scene EXCEPT ![s] = Append(@, "new")]
                   /\ isApplyingRemote' = [isApplyingRemote EXCEPT ![s] = applying]
                   /\ isAddingObject' = [isAddingObject EXCEPT ![s] = go]
                   /\ timer' = [timer EXCEPT ![s] = @ \/ accept]
                   /\ burst' = [burst EXCEPT ![s] = Called(@, accept, scene'[s])]
                   /\ lastLocalJson' = [lastLocalJson EXCEPT ![s] = IF go THEN ArmedJson(s, json) ELSE @]
                   /\ wq' = [wq EXCEPT ![s] = IF go THEN Append(@, [kind |-> "add", data |-> json, viewOnly |-> viewOnly[s], landed |-> FALSE]) ELSE @]
                   /\ persisted' = [persisted EXCEPT ![s] = IF go THEN @ \cup {json} ELSE @]
                   /\ issued' = [issued EXCEPT ![s] = IF go THEN @ \cup AddKinds(wq[s]) ELSE @]
                   /\ ev' = Event("addShape", s, go, accept, FALSE, json)
            /\ edits' = edits + 1
            /\ UNCHANGED pendingRemoteJson
    /\ UNCHANGED <<server, pc, viewOnly, fc, listeners, snap, inbox, clearTimers, poll, buffered, drained>>
    /\ status' = [status EXCEPT ![s] = IF ev'.wrote THEN "Saving..." ELSE @]
    /\ UNCHANGED <<closed, faults>>

\* A setDoc of another client of the same canvas id reaches the server: its
\* load effect's creating setDoc when there is no document, or its doSave's
\* merging setDoc of the scene of its canvas.
RemoteSetDoc(blob, vo) ==
    /\ remoteWrites < MaxRemote
    /\ IF blob = InitialBlob THEN ~store.exists ELSE ~vo
    /\ LET w == [kind |-> IF blob = InitialBlob THEN "create" ELSE "save", data |-> blob, viewOnly |-> vo, landed |-> FALSE]
       IN  store' = SetDoc(store, w, clock + 1)
    /\ clock' = clock + 1
    /\ remoteWrites' = remoteWrites + 1
    /\ inbox' = [t \in Sessions |-> IF pc[t] = "subscribed" THEN Append(inbox[t], blob) ELSE inbox[t]]
    /\ ev' = Event("remote", "X", FALSE, FALSE, FALSE, blob)
    /\ UNCHANGED <<pc, viewOnly, fc, listeners, scene, refs, snap, wq, timer, clearTimers, poll, edits, hist>>
    /\ UNCHANGED status
    /\ UNCHANGED <<closed, faults>>

\* getDoc rejects: the catch clause of the load effect; onSnapshot is not
\* reached.
GetDocFail(s) ==
    /\ pc[s] = "fetching"
    /\ faults < MaxFaults
    /\ faults' = faults + 1
    /\ pc' = [pc EXCEPT ![s] = "fetchFailed"]
    /\ status' = [status EXCEPT ![s] = "Error loading scene"]
    /\ ev' = Event("getDocFail", s, FALSE, FALSE, FALSE, NoBlob)
    /\ UNCHANGED <<server, viewOnly, fc, listeners, scene, refs, snap, wq, inbox, timer, clearTimers, poll, closed, edits, hist>>

\* The oldest setDoc of session s not yet at the server is rejected and
\* never reaches it.  The creating setDoc throws into the catch clause of
\* the load effect; a setDoc of doSave into doSave's own catch clause, after
\* which the promise doSave returned resolves and addShape's finally runs.
WriteFail(s) ==
    /\ Unlanded(wq[s]) # {}
    /\ faults < MaxFaults
    /\ faults' = faults + 1
    /\ LET i == FirstUnlanded(wq[s])
           w == wq[s][i]
       IN  /\ wq' = [wq EXCEPT ![s] = RemoveAt(@, i)]
           /\ pc' = [pc EXCEPT ![s] = IF w.kind = "create" THEN "createFailed" ELSE @]
           /\ status' = [status EXCEPT ![s] = IF w.kind = "create" THEN "Error loading scene" ELSE "Save error"]
           /\ isAddingObject' = [isAddingObject EXCEPT ![s] = IF w.kind = "add" THEN FinallyAdding(s) ELSE @]
           /\ ev' = Event(IF w.kind = "create" THEN "createFail" ELSE "saveFail", s, FALSE, FALSE, FALSE, w.data)
    /\ UNCHANGED <<server, viewOnly, fc, listeners, scene, lastLocalJson, isApplyingRemote, pendingRemoteJson, snap, inbox, timer, clearTimers, poll, closed, edits, hist>>

\* The document is deleted from outside the program (the program itself
\* never deletes it): every subscribed session is sent a snapshot of an
\* absent document.
RemoteDelete ==
    /\ store.exists
    /\ remoteWrites < MaxRemote
    /\ remoteWrites' = remoteWrites + 1
    /\ store' = AbsentDoc
    /\ inbox' = [t \in Sessions |-> IF pc[t] = "subscribed" THEN Append(inbox[t], NoBlob) ELSE inbox[t]]
    /\ ev' = Event("remoteDelete", "X", FALSE, FALSE, FALSE, NoBlob)
    /\ UNCHANGED <<clock, faults, pc, viewOnly, fc, listeners, scene, refs, snap, wq, timer, clearTimers, poll, status, closed, edits, hist>>

\* The component unmounts (the user navigates away): the cleanups of the
\* effects run.  The load effect's calls unsub if onSnapshot has returned
\* it; useFabric's disposes the canvas and sets fabricRef.current to null;
\* the listeners are taken off; the interval is cleared.  The debounce
\* timer, the timeouts and the setDoc calls are left as they are.
Close(s) ==
    /\ Open(s)
    /\ closed' = [closed EXCEPT ![s] = TRUE]
    /\ pc' = [pc EXCEPT ![s] = IF @ = "subscribed" THEN "unsubscribed" ELSE @]
    /\ inbox' = [inbox EXCEPT ![s] = IF pc[s] = "subscribed" THEN <<>> ELSE @]
    /\ fc' = [fc EXCEPT ![s] = FALSE]
    /\ listeners' = [listeners EXCEPT ![s] = FALSE]
    /\ scene' = [scene EXCEPT ![s] = <<>>]
    /\ poll' = [poll EXCEPT ![s] = FALSE]
    /\ ev' = Event("close", s, FALSE, FALSE, FALSE, NoBlob)
    /\ UNCHANGED <<server, viewOnly, refs, snap, wq, timer, clearTimers, status, faults, edits, hist>>

\* The window is resized: handleResize sets a new canvasSize object, so the
\* options of useFabric change and its effect runs again: the canvas is
\* disposed and a new, empty one is made on the same element.  The effects
\* of CanvasPage depend on the ref, not on the canvas, and do not run again:
\* nothing is loaded into the new canvas and it gets no mutation listeners.
\* (Modelled while no debounced save is scheduled: a pending timer would
\* save the disposed canvas.)
Resize(s) ==
    /\ Open(s)
    /\ fc[s]
    /\ ~timer[s]
    /\ scene' = [scene EXCEPT ![s] = <<>>]
    /\ listeners' = [listeners EXCEPT ![s] = FALSE]
    /\ ev' = Event("resize", s, FALSE, FALSE, FALSE, NoBlob)
    /\ UNCHANGED <<server, pc, viewOnly, fc, refs, snap, wq, inbox, timer, clearTimers, poll, status, closed, faults, edits, hist>>

\* The id in the URL changes while the component stays mounted (a history
\* step from one /canvas/:id entry to another): the load effect's cleanup
\* unsubscribes and the effect runs again for the new id.  The refs and the
\* canvas belong to the component and stay as they are.  What the session
\* does on the new id's document is not modelled; the calls it has made for
\* the old id go on.  (Modelled for a session that has subscribed.)
ChangeId(s) ==
    /\ Open(s)
    /\ pc[s] = "subscribed"
    /\ pc' = [pc EXCEPT ![s] = "switched"]
    /\ inbox' = [inbox EXCEPT ![s] = <<>>]
    /\ ev' = Event("changeId", s, FALSE, FALSE, FALSE, NoBlob)
    /\ UNCHANGED <<server, viewOnly, fc, listeners, scene, refs, snap, wq, timer, clearTimers, poll, status, closed, faults, edits, hist>>

\* The scenes within the bounds, and the blobs a client can write.
Scenes == UNION {[1 .. n -> ObjVals] : n \in 0 .. MaxObjects}

Blobs == {InitialBlob} \cup {ToJSON(sc) : sc \in Scenes}

\* The steps of a session whose <canvas> element is attached when its
\* effects first run.
SessionStep(s) ==
    \/ \E vo \in BOOLEAN : Mount(s, vo, TRUE)
    \/ GetDocRead(s)
    \/ GetDocResume(s)
    \/ WriteLand(s)
    \/ WriteAck(s)
    \/ OnSnapshot(s)
    \/ ClearApplying(s)
    \/ DebounceFire(s)
    \/ \E i \in 1 .. MaxObjects : UserModify(s, i)
    \/ PenStroke(s)
    \/ \E i \in 1 .. MaxObjects : KeyDelete(s, i)
    \/ \E i \in 1 .. MaxObjects : ChangeSelectedObjectColor(s, i)
    \/ AddShape(s)

\* The steps that exist only when the <canvas> element is attached late.
LateCanvasStep(s) ==
    \/ \E vo \in BOOLEAN : Mount(s, vo, FALSE)
    \/ UseFabricEffect(s)
    \/ TryApply(s)

\* One session in full, the other clients of the canvas id as writers.
Next ==
    \/ SessionStep("X")
    \/ LateCanvasStep("X")
    \/ \E blob \in Blobs, vo \in BOOLEAN : RemoteSetDoc(blob, vo)

Spec == Init /\ [][Next]_vars

\* The steps the browser and the server take by themselves: answers, landings
\* and acknowledgements of Firestore calls, snapshot deliveries and timers.
\* The event loop runs every task that is ready.
SystemStep ==
    \/ GetDocRead("X")
    \/ GetDocResume("X")
    \/ WriteLand("X")
    \/ WriteAck("X")
    \/ OnSnapshot("X")
    \/ ClearApplying("X")
    \/ DebounceFire("X")
    \/ TryApply("X")

FairSpec == Spec /\ WF_vars(SystemStep)

\* The same with failing Firestore calls and with a document that is
\* deleted, or given a blob that is no scene, from outside the program.
NextFaults ==
    \/ Next
    \/ GetDocFail("X")
    \/ WriteFail("X")
    \/ RemoteDelete
    \/ RemoteSetDoc(Malformed, FALSE)

SpecFaults == Init /\ [][NextFaults]_vars

\* The same with a session that can be closed at any moment.
NextClose ==
    \/ Next
    \/ Close("X")

SpecClose == Init /\ [][NextClose]_vars

\* The same with a window that can be resized.
NextResize ==
    \/ Next
    \/ Resize("X")

SpecResize == Init /\ [][NextResize]_vars

\* The same with a view that can go over to another canvas id.
NextSwitch ==
    \/ Next
    \/ ChangeId("X")

SpecSwitch == Init /\ [][NextSwitch]_vars

\* Two sessions in full and no other client.
NextTwo == \E s \in Sessions : SessionStep(s)

SpecTwo == Init /\ [][NextTwo]_vars

\* ------------------------------------------------------------------ claims
\* C1 (echo suppression): a snapshot that carries a blob this session's
\* doSave has written does not make the session reload its canvas.
C1_EchoNeverReloads == (ev.op = "onSnapshot" /\ ev.blob \in persisted[ev.s]) => ~ev.reload

\* Session s has nothing left to do by itself: it is subscribed with a
\* canvas, no save is scheduled, no write of its own is in flight, no snapshot
\* is undelivered and no deferred step of a load is pending.
Quiescent(s) ==
    /\ pc[s] = "subscribed"
    /\ fc[s]
    /\ ~timer[s]
    /\ wq[s] = <<>>
    /\ inbox[s] = <<>>
    /\ clearTimers[s] = 0
    /\ pendingRemoteJson[s] = NoBlob

Mounted == {s \in Sessions : pc[s] # "unmounted"}

\* C2 (convergence): when every open session is quiescent, each session's
\* canvas shows the scene of the blob the store holds.
C2_Converged == (Mounted # {} /\ \A s \in Mounted : Quiescent(s)) => \A s \in Mounted : scene[s] = LoadFromJSON(store.data)

\* C3 (view-only enforcement): in a view-only session no step starts the
\* debounce timer, none calls doSave, and no doSave write is ever issued.
C3_ViewOnlyNeverPersists == \A s \in Sessions : viewOnly[s] => /\ ~timer[s]
                                                              /\ persisted[s] = {}
                                                              /\ lastLocalJson[s] = NoBlob
                                                              /\ issued[s] \cap {"add", "debounce"} = {}
                                                              /\ (ev.s = s => ~ev.sched /\ (ev.wrote => ev.op = "getDocCreate"))

\* C3 witness: in a view-only session with listeners on its canvas the user
\* has just modified an object (object:modified reached onChange).
C3_Witness == ev.op = "modify" /\ viewOnly[ev.s] /\ listeners[ev.s] /\ fc[ev.s]

Last(q) == q[Len(q)]

\* C5 as claimed: when the debounce timer fires, exactly one write is made
\* and it carries the canvas as it was after the last accepted mutation.
C5_FireWritesLastAccepted == ev.op = "debounceFire" => ev.wrote /\ ev.blob = ev.accepted

\* C5 as amended: the timer is pending exactly while calls of debouncedSave
\* wait for it; the steps that start it write nothing; when it fires it
\* stands for N >= 1 calls, is no longer pending, and makes one call of
\* doSave, which writes once, unless isApplyingRemote is set and it writes
\* nothing; the write carries the canvas as it is when the timer fires.
C5_DebounceCoalesces ==
    /\ \A s \in Sessions : timer[s] <=> burst[s].n >= 1
    /\ ev.sched => ~ev.wrote /\ timer[ev.s]
    /\ ev.op = "debounceFire" => /\ ev.n >= 1
                                 /\ ~timer[ev.s]
                                 /\ ev.wrote <=> ~ev.preApplying
                                 /\ ev.wrote => /\ ev.blob = ToJSON(scene[ev.s])
                                                /\ lastLocalJson[ev.s] = ev.blob
                                                /\ wq[ev.s] # <<>>
                                                /\ Last(wq[ev.s]) = [kind |-> "debounce", data |-> ev.blob, viewOnly |-> FALSE, landed |-> FALSE]

\* C5 witness: the timer has fired for two accepted mutations and made one
\* write, of the canvas after the second.
C5_Witness == ev.op = "debounceFire" /\ ev.n = 2 /\ ev.wrote /\ ev.blob = ev.accepted /\ edits = 2

\* C6 as claimed: once the polling of tryApply has ended, every blob that
\* was buffered has been loaded, once each.
C6_EveryBufferedBlobLoadedOnce == \A s \in Sessions : (pc[s] # "unmounted" /\ ~poll[s]) => drained[s] = buffered[s]

\* C6 as amended: pendingRemoteJson holds one blob, the last one buffered.
\* That blob is either still pending, with the polling active, or tryApply
\* has loaded it, exactly once, and nothing is pending; blobs buffered
\* before it are never loaded by tryApply.
C6_LastBufferedLoadedOnce == \A s \in Sessions : buffered[s] # <<>> =>
    \/ pendingRemoteJson[s] = Last(buffered[s]) /\ drained[s] = <<>> /\ poll[s]
    \/ pendingRemoteJson[s] = NoBlob /\ drained[s] = <<Last(buffered[s])>> /\ ~poll[s] /\ fc[s]

\* C6 witness: two different blobs were buffered while there was no canvas,
\* and tryApply has loaded the second.
C6_Witness == Len(buffered["X"]) = 2 /\ buffered["X"][1] # buffered["X"][2] /\ drained["X"] = <<buffered["X"][2]>> /\ ev.op = "tryApply"

\* C7 (immediate add): addShape in an editable session with a canvas calls
\* setDoc in the same step with the canvas including the new object,
\* whatever isApplyingRemote was and whether or not the debounce timer is
\* pending, and it does not touch that timer.
C7_AddShapeWritesAtOnce == (ev.op = "addShape" /\ ~viewOnly[ev.s] /\ fc[ev.s]) =>
    /\ ev.wrote
    /\ ~ev.sched
    /\ timer[ev.s] <=> ev.n >= 1
    /\ ev.blob = ToJSON(scene[ev.s])
    /\ Last(scene[ev.s]) = "new"
    /\ lastLocalJson[ev.s] = ev.blob
    /\ wq[ev.s] # <<>>
    /\ Last(wq[ev.s]) = [kind |-> "add", data |-> ev.blob, viewOnly |-> FALSE, landed |-> FALSE]

\* C7 witness: addShape has written while isApplyingRemote was set, the
\* timeout of a load was pending and the debounce timer was pending.
C7_Witness == ev.op = "addShape" /\ ev.wrote /\ ev.preLoading /\ timer[ev.s] /\ ev.n >= 1

\* C8 (loading never causes a write): a step that loads a blob into the
\* canvas neither starts the debounce timer nor writes.
C8_LoadNeverSaves == ev.reload => ~ev.sched /\ ~ev.wrote

\* The setDoc calls made so far by the sessions and not yet at the server.
InFlight == Cardinality(Unlanded(wq["X"])) + Cardinality(Unlanded(wq["Y"]))

\* No save is scheduled, no write is in flight, no snapshot is undelivered.
Quiet == \A s \in Sessions : ~timer[s] /\ wq[s] = <<>> /\ inbox[s] = <<>>

\* The writes and notifications so far are those the opens and the user
\* actions account for: each open makes at most one write (the creating
\* one, or one save), each user action at most one, and a session is sent at
\* most one snapshot on subscribing and one per write that landed.
C9_WritesBounded ==
    /\ (clock - remoteWrites) + InFlight <= edits + Cardinality(Mounted)
    /\ \A s \in Sessions : Len(inbox[s]) <= clock + 1

C10_NoWriteWhileLoading == ev.wrote => ~ev.preLoading

\* C11 (the flag covers a remote load): a step of the snapshot callback or
\* of tryApply that loads a blob leaves isApplyingRemote set, and the flag
\* stays set for as long as the timeout that a load scheduled to clear it
\* has not fired, also when the timeouts of several loads are pending.
C11_FlagCoversLoad ==
    /\ (ev.reload /\ ev.op \in {"onSnapshot", "tryApply"}) => isApplyingRemote[ev.s]
    /\ \A s \in Sessions : clearTimers[s] > 0 => isApplyingRemote[s]

\* C12 (create-if-absent): the creating setDoc is issued only after getDoc
\* found no document, and when it reaches the server there is no document
\* for it to replace.
C12_CreateNeverReplaces ==
    /\ ev.op = "getDocCreate" => ~snap[ev.s].exists
    /\ (ev.op = "writeLand" /\ ev.blob = InitialBlob) => ~ev.preExists

\* C13 (Scenario A): when the creating setDoc of a session resolves and
\* nothing else was written (no other client, no save of this session), the
\* store holds a document with the empty initial blob, createdAt equal to
\* updatedAt, and viewOnly as the session was opened.
C13_ScenarioA == (ev.op = "writeAck" /\ ev.blob = InitialBlob /\ remoteWrites = 0 /\ issued[ev.s] = {"create"}) =>
    /\ store.exists
    /\ store.data = InitialBlob
    /\ LoadFromJSON(store.data) = <<>>
    /\ store.createdAt = store.updatedAt
    /\ store.createdAt > 0
    /\ store.viewOnly = (IF viewOnly[ev.s] THEN "true" ELSE "false")
    /\ pc[ev.s] = "subscribed"

\* C13 witness: a session opened with viewOnly=true has created the
\* document of a new canvas id and its setDoc has resolved.
C13_Witness == ev.op = "writeAck" /\ ev.blob = InitialBlob /\ remoteWrites = 0 /\ issued[ev.s] = {"create"} /\ viewOnly[ev.s] /\ store.viewOnly = "true"

\* C14 (Scenario D): a snapshot whose blob is the JSON of the canvas as it
\* is does not reload the canvas and leaves isApplyingRemote as it was.
C14_ScenarioD == (ev.op = "onSnapshot" /\ fc[ev.s] /\ ev.same) =>
    /\ ~ev.reload
    /\ ~ev.sched
    /\ isApplyingRemote[ev.s] = ev.preApplying
    /\ ToJSON(scene[ev.s]) = ev.blob

\* C14 witness: a snapshot with the JSON of the canvas, which has an object
\* and is not the blob this session wrote last, was delivered with the flag
\* clear.
C14_Witness == ev.op = "onSnapshot" /\ fc[ev.s] /\ ev.same /\ Len(scene[ev.s]) > 0 /\ lastLocalJson[ev.s] # ev.blob /\ ~ev.preApplying /\ ~isApplyingRemote[ev.s]

\* C15 (Scenario C, last write wins): when a setDoc reaches the server, of
\* this session or of another client, the stored data is exactly the blob
\* it carries, whatever the store held before.
C15_LastWriteWins == ev.op \in {"writeLand", "remote"} => store.data = ev.blob /\ store.exists /\ store.updatedAt = clock

\* C15 witness: session X's write of B1 is at the server, unacknowledged;
\* the write of another client that carries a different blob B2 with no
\* objects lands after it, and the store holds B2.
C15_Witness == ev.op = "remote" /\ ev.preExists /\ wq["X"] # <<>> /\ Last(wq["X"]).landed /\ Last(wq["X"]).kind # "create" /\ Len(Last(wq["X"]).data.objects) > 0 /\ ev.blob = ToJSON(<<>>) /\ store.data = ev.blob

\* C16 (Scenario B): with no other client, after two addShape calls, the
\* second made before the first one's setDoc had resolved, and once the
\* session is open and all its setDoc calls have resolved, the store holds
\* both shapes and at most one debounced write was made besides the
\* writes of addShape and of the open.
C16_ScenarioB == (edits = 2 /\ remoteWrites = 0 /\ "addOverlap" \in issued["X"] /\ pc["X"] = "subscribed" /\ wq["X"] = <<>>) =>
    /\ store.data = ToJSON(<<"new", "new">>)
    /\ clock <= 3 + (IF "debounce" \in issued["X"] THEN 1 ELSE 0)

\* The setDoc calls of doSave in q, as positions.
SaveWrites(q) == {i \in 1 .. Len(q) : q[i].kind # "create"}

\* C17 (arm before write): a step in which doSave calls setDoc with blob B
\* ends with lastLocalJson = B and that write not yet at the server; the
\* last write of doSave that is in flight or unacknowledged carries
\* lastLocalJson; and when a write of doSave reaches the server, where the
\* subscription can first see it, lastLocalJson is a blob doSave has set.
C17_ArmedBeforeWrite ==
    /\ (ev.wrote /\ ev.op \in {"addShape", "debounceFire"}) => /\ lastLocalJson[ev.s] = ev.blob
                                                               /\ ev.blob \in persisted[ev.s]
                                                               /\ wq[ev.s] # <<>>
                                                               /\ Last(wq[ev.s]).data = ev.blob
                                                               /\ ~Last(wq[ev.s]).landed
    /\ \A s \in Sessions : SaveWrites(wq[s]) # {} => \E i \in SaveWrites(wq[s]) : /\ \A j \in SaveWrites(wq[s]) : j <= i
                                                                                  /\ wq[s][i].data = lastLocalJson[s]
    /\ (ev.op = "writeLand" /\ ev.blob # InitialBlob) => lastLocalJson[ev.s] \in persisted[ev.s]

\* C17 witness: the debounced doSave has written B while an earlier write
\* of doSave with another blob has not reached the server.
C17_Witness == ev.op = "debounceFire" /\ ev.wrote /\ Len(wq[ev.s]) >= 2 /\ ~wq[ev.s][1].landed /\ wq[ev.s][1].kind = "add" /\ wq[ev.s][1].data # ev.blob /\ lastLocalJson[ev.s] = ev.blob

\* C18 (frame of a save): a write of doSave that lands on an existing
\* document, of this session or of another client, leaves createdAt and
\* viewOnly as they were and sets data and updatedAt.
C18_SaveKeepsCreation == (ev.op \in {"writeLand", "remote"} /\ ev.blob # InitialBlob /\ ev.preExists) =>
    /\ store.createdAt = ev.preCreatedAt
    /\ store.viewOnly = ev.preViewOnly
    /\ store.data = ev.blob
    /\ store.updatedAt = clock

\* C18 witness: a save of this session has landed on the document that a
\* view-only creator made; createdAt and viewOnly are the creator's.
C18_Witness == ev.op = "writeLand" /\ ev.blob # InitialBlob /\ ev.preExists /\ store.viewOnly = "true" /\ store.createdAt > 0 /\ store.updatedAt > store.createdAt /\ ~viewOnly[ev.s]

\* C19 (createdAt is set once): a stored document with data has a
\* createdAt, and once the document has a createdAt no step changes it.
C19_CreatedAtSetOnce ==
    /\ (store.exists /\ store.data # NoBlob) => store.createdAt > 0
    /\ ev.preCreatedAt > 0 => store.createdAt = ev.preCreatedAt

\* C20 (guards of the mutation listeners): a mutation event (object:added,
\* object:modified, object:removed, path:created) fired while the session is
\* view-only, or isAddingObject is set, or isApplyingRemote is set neither
\* starts nor restarts the debounce timer and writes nothing; so do the
\* events fired by addShape's own insertion and by a load of the snapshot
\* callback or of tryApply.
C20_GuardedEventsDoNotSchedule ==
    /\ (ev.op \in {"modify", "stroke", "delete"} /\ (viewOnly[ev.s] \/ ev.preAdding \/ ev.preApplying)) =>
           /\ ~ev.sched
           /\ ~ev.wrote
           /\ timer[ev.s] <=> ev.n >= 1
           /\ burst[ev.s] = [n |-> ev.n, json |-> ev.accepted]
    /\ (ev.op = "addShape" \/ (ev.reload /\ ev.op \in {"onSnapshot", "tryApply"})) =>
           /\ ~ev.sched
           /\ burst[ev.s] = [n |-> ev.n, json |-> ev.accepted]

\* C20 witness: the user has modified an object while isAddingObject was
\* set and the debounce timer was pending; the timer was not restarted.
C20_Witness == ev.op = "modify" /\ ev.preAdding /\ ~ev.preApplying /\ ~viewOnly[ev.s] /\ listeners[ev.s] /\ ev.n >= 1 /\ timer[ev.s] /\ ev.accepted # ToJSON(scene[ev.s])

\* C21 (doSave under isApplyingRemote is a no-op): a step in which doSave
\* is called while isApplyingRemote is set calls no setDoc and leaves
\* lastLocalJson, the status line, the canvas and the store as they were.
C21_DoSaveNoOpWhileApplying == [][(ev'.op = "debounceFire" /\ isApplyingRemote[ev'.s]) =>
                                     /\ ~ev'.wrote
                                     /\ wq' = wq
                                     /\ lastLocalJson' = lastLocalJson
                                     /\ status' = status
                                     /\ scene' = scene
                                     /\ isApplyingRemote' = isApplyingRemote
                                     /\ persisted' = persisted
                                     /\ store' = store]_vars

\* C21 witness: the debounce timer has fired with isApplyingRemote set, for
\* a call made after the session's last save, and nothing was written.
C21_Witness == ev.op = "debounceFire" /\ ev.preApplying /\ ~ev.wrote /\ ev.n >= 1 /\ status[ev.s] = "Saved" /\ lastLocalJson[ev.s] # NoBlob /\ lastLocalJson[ev.s] # ToJSON(scene[ev.s])

\* The setDoc calls of addShape's doSave in q that have not resolved.
AddWrites(q) == {i \in 1 .. Len(q) : q[i].kind = "add"}

\* C22 (lifetime of isAddingObject): the flag is set exactly while a doSave
\* called by addShape has not resolved, also when several are outstanding.
C22_AddingWhileOutstanding == \A s \in Sessions : isAddingObject[s] <=> AddWrites(wq[s]) # {}

\* C23 (an explicit add is saved exactly once): a step of addShape that
\* inserts an object does not start or restart the debounce timer, and it
\* calls setDoc exactly once, with the canvas including the new object.
C23_AddSavedOnce == [][(ev'.op = "addShape" /\ ~Refuses(ev'.s)) =>
                          /\ ~ev'.sched
                          /\ timer' = timer
                          /\ burst' = burst
                          /\ ev'.wrote
                          /\ wq' = [wq EXCEPT ![ev'.s] = Append(@, [kind |-> "add", data |-> ToJSON(scene'[ev'.s]), viewOnly |-> FALSE, landed |-> FALSE])]
                          /\ scene'[ev'.s] = Append(scene[ev'.s], "new")]_vars

\* C23 witness: addShape has written with the listeners attached and both
\* flags clear before it, and the debounce timer is not pending.
C23_Witness == ev.op = "addShape" /\ ev.wrote /\ listeners[ev.s] /\ ~ev.preAdding /\ ~ev.preApplying /\ ev.n = 0 /\ ~timer[ev.s] /\ pc[ev.s] = "subscribed"

\* C24 (load failure): once getDoc has failed, the status line shows the
\* load error from then on and the session has no subscription (it is sent
\* no snapshot); it never fetches again.
C24_LoadErrorPersists == \A s \in Sessions : pc[s] = "fetchFailed" => (status[s] = "Error loading scene" /\ inbox[s] = <<>>)

\* C25 (write failure): the step in which a setDoc of doSave is rejected
\* sets the status line to the save error, leaves canvas and store as they
\* are, issues no write and starts no timer, and leaves isAddingObject clear
\* unless another add is outstanding; while the status line shows the save
\* error, a user's mutation event that meets no flag starts the debounce
\* timer.
C25_SaveFailure ==
    [][/\ (ev'.op = "saveFail") =>
            (/\ status'[ev'.s] = "Save error"
             /\ scene' = scene
             /\ store' = store
             /\ ~ev'.wrote
             /\ timer' = timer
             /\ burst' = burst
             /\ persisted' = persisted
             /\ Len(wq'[ev'.s]) = Len(wq[ev'.s]) - 1
             /\ (AddWrites(wq'[ev'.s]) = {} => ~isAddingObject'[ev'.s]))
       /\ (/\ ev'.op \in {"modify", "stroke", "delete"}
           /\ status[ev'.s] = "Save error"
           /\ listeners[ev'.s]
           /\ ~viewOnly[ev'.s]
           /\ ~isApplyingRemote[ev'.s]
           /\ AddWrites(wq[ev'.s]) = {}) =>
            (ev'.sched /\ timer'[ev'.s])]_vars

\* A mutation event after a failed save has started the timer.
C25_Witness == ev.op \in {"modify", "stroke", "delete"} /\ ev.sched /\ status[ev.s] = "Save error" /\ faults = 1 /\ timer[ev.s] /\ Len(scene[ev.s]) > 0

\* C26 (close): a closed session has no active subscription, whenever it
\* was closed.
C26_ClosedHasNoSubscription == \A s \in Sessions : closed[s] => pc[s] # "subscribed"

\* C27 (no data): a snapshot of an absent document, or of one without data,
\* changes neither canvas, status line, lastLocalJson, pendingRemoteJson nor
\* the flags, and schedules and writes nothing.
C27_NoDataIgnored == [][(ev'.op = "onSnapshot" /\ ev'.blob = NoBlob) => (/\ scene' = scene /\ status' = status /\ lastLocalJson' = lastLocalJson /\ pendingRemoteJson' = pendingRemoteJson /\ isAddingObject' = isAddingObject /\ isApplyingRemote' = isApplyingRemote /\ clearTimers' = clearTimers /\ timer' = timer /\ wq' = wq)]_vars

\* Such a snapshot has reached a session whose canvas shows objects.
C27_Witness == ev.op = "onSnapshot" /\ ev.blob = NoBlob /\ fc[ev.s] /\ Len(scene[ev.s]) > 0 /\ ~store.exists

\* C28 (malformed blob): after a snapshot with a blob that cannot be loaded
\* the status line shows no error and, with no timeout of a load pending,
\* isApplyingRemote is false.
C28_MalformedIgnored == (ev.op = "onSnapshot" /\ ev.blob = Malformed /\ ~ev.preApplying /\ clearTimers[ev.s] = 0) => (status[ev.s] \notin {"Error loading scene", "Save error"} /\ ~isApplyingRemote[ev.s])

\* C29 (poll): with a canvas, the interval of tryApply is stopped in the
\* end, whether a blob was buffered or not.
C29_PollStops == \A s \in Sessions : (fc[s] /\ poll[s]) ~> ~poll[s]

\* C30 (flags): isAddingObject and isApplyingRemote are never both set.
C30_FlagsExclusive == \A s \in Sessions : ~(isAddingObject[s] /\ isApplyingRemote[s])

\* C32 (no cancellation): a user's mutation event that arrives in an
\* editable session while a setDoc of the session is unresolved, and while
\* no remote blob is being applied, leaves that setDoc as it is and schedules
\* a save of its own.
C32_MutationInFlightSchedules == (ev.op \in {"modify", "stroke", "delete"} /\ listeners[ev.s] /\ ~viewOnly[ev.s] /\ ~ev.preApplying /\ wq[ev.s] # <<>>) => (ev.sched /\ timer[ev.s])

\* C36 (close): the debounce timer of a closed session does not write.
C36_ClosedNeverWrites == (ev.op = "debounceFire" /\ closed[ev.s]) => ~ev.wrote

\* C37 (status): while the status line shows "Saved" no setDoc of the
\* session is unresolved.
C37_SavedMeansNoneInFlight == \A s \in Sessions : status[s] = "Saved" => wq[s] = <<>>

\* C33 (stored viewOnly): in a session opened without the view-only flag,
\* with a stored document whose viewOnly field is true, mutation events that
\* meet no flag start the timer, the timer's doSave and addShape call setDoc,
\* and the write replaces the stored data.
C33_StoredFlagDoesNotGate ==
    [][(store.viewOnly = "true" /\ ~viewOnly[ev'.s]) =>
            (/\ (ev'.op \in {"modify", "stroke", "delete"} /\ listeners[ev'.s] /\ ~isAddingObject[ev'.s] /\ ~isApplyingRemote[ev'.s]) => (ev'.sched /\ timer'[ev'.s])
             /\ (ev'.op = "debounceFire" /\ ~isApplyingRemote[ev'.s]) => ev'.wrote
             /\ (ev'.op = "addShape" /\ fc[ev'.s]) => ev'.wrote
             /\ (ev'.op = "writeLand") => store'.data = ev'.blob)]_vars

\* A debounced save of such a session has replaced the data of a document
\* whose viewOnly field is true.
C33_Witness == ev.op = "writeLand" /\ ev.preViewOnly = "true" /\ ~viewOnly[ev.s] /\ "debounce" \in issued[ev.s] /\ store.data = ev.blob /\ Len(store.data.objects) > 0 /\ store.viewOnly = "true"

\* C34 (no edit left unsaved): in an editable session that has loaded and
\* subscribed, a user's mutation event that occurs while no remote blob is
\* being applied is followed in the end by a call of setDoc by doSave,
\* unless a remote blob is loaded into the canvas first.
C34_EditEventuallyWritten == \A s \in Sessions : (ev.s = s /\ pc[s] = "subscribed" /\ ev.op \in {"modify", "stroke", "delete"} /\ listeners[s] /\ ~viewOnly[s] /\ ~ev.preApplying) ~> (ev.s = s /\ (ev.reload \/ (ev.op \in {"debounceFire", "addShape"} /\ ev.wrote)))

\* C31 (state per canvas id): when the view has gone over to another canvas
\* id, lastLocalJson, pendingRemoteJson and both flags have their initial
\* values.
C31_FreshStateForNewId == \A s \in Sessions : (ev.op = "changeId" /\ ev.s = s) => (lastLocalJson[s] = NoBlob /\ pendingRemoteJson[s] = NoBlob /\ ~isAddingObject[s] /\ ~isApplyingRemote[s])

\* C35 (re-created canvas): right after the canvas of a subscribed session
\* has been re-created, with no snapshot waiting and objects in the store,
\* it shows the stored scene and has the mutation listeners.
C35_RecreatedShowsStored == (ev.op = "resize" /\ pc[ev.s] = "subscribed" /\ inbox[ev.s] = <<>> /\ Parses(store.data) /\ Len(store.data.objects) > 0) => (scene[ev.s] = LoadFromJSON(store.data) /\ (~viewOnly[ev.s] => listeners[ev.s]))

====
